---------------------------- MODULE Spec2Model ----------------------------
(***************************************************************************)
(* Model of app.py (AdvancedContentAnalyzer): the batch run of             *)
(* process_file over the rows of a spreadsheet, the parsing of the model's *)
(* response into three service sections, and the regular-expression        *)
(* extraction of phone numbers and e-mail addresses.                       *)
(*                                                                         *)
(* A Python str is a sequence of one-character strings, so that matching,  *)
(* stripping, replacing and joining are computed character by character.   *)
(***************************************************************************)
EXTENDS Integers, Sequences, FiniteSets

VARIABLES
    pc,             \* position of the program / of the function under study
    env,            \* whether GOOGLE_API_KEY is set and the input file can be read
    hashseed,       \* the interpreter's string hash seed, fixed per process
    columns,        \* the columns the input spreadsheet has
    rows,           \* the rows of the input spreadsheet (df)
    idx,            \* number of rows the loop of process_file has taken up
    rowState,       \* per row: Unprocessed, ContentEmpty, ModelCalled, Assembled
    calls,          \* the rows for which generate_content was called, in call order
    outcome,        \* per row: what the model call did ("none" before / without a call)
    analysis,       \* the local `analysis` of the row being processed
    analyzed_data,  \* the list of processed rows
    result_df,      \* what process_file returned to main
    saved,          \* whether main wrote the output spreadsheet
    text,           \* the argument of the function under study
    nchunks,        \* number of pieces `text` was put together from
    parsed          \* the value the function under study returned

vars == <<pc, env, hashseed, columns, rows, idx, rowState, calls, outcome, analysis,
          analyzed_data, result_df, saved, text, nchunks, parsed>>

batchVars == <<env, columns, rows, idx, rowState, calls, outcome, analysis,
               analyzed_data, result_df, saved>>

-----------------------------------------------------------------------------
(* Bounds *)

MaxRows == 3
MaxSeed == 1
MaxContactChunks == 3
MaxResponseChunks == 4

-----------------------------------------------------------------------------
(* Characters and the character classes of Python's re *)

UpperSeq == <<"A", "B", "C", "D", "E", "F", "G", "H", "I", "J", "K", "L", "M", "N", "O", "P", "Q", "R", "S", "T", "U", "V", "W", "X", "Y", "Z">>
LowerSeq == <<"a", "b", "c", "d", "e", "f", "g", "h", "i", "j", "k", "l", "m", "n", "o", "p", "q", "r", "s", "t", "u", "v", "w", "x", "y", "z">>

UpperLetters == {UpperSeq[k] : k \in 1..Len(UpperSeq)}
LowerLetters == {LowerSeq[k] : k \in 1..Len(LowerSeq)}
Letters == UpperLetters \cup LowerLetters
Digits == {"0", "1", "2", "3", "4", "5", "6", "7", "8", "9"}

\* \w
IsWordChar(c) == c \in Letters \cup Digits \cup {"_"}
\* \s, and the characters str.strip() removes
Whitespace == {" ", "\t", "\n", "\r", "\f"}
\* [-.\s]
PhoneSeparators == {"-", "."} \cup Whitespace

\* re.IGNORECASE compares characters by their lower case
Lower(c) ==
    IF c \in UpperLetters
    THEN LowerSeq[CHOOSE k \in 1..Len(UpperSeq) : UpperSeq[k] = c]
    ELSE c

WordAt(s, p) == p >= 1 /\ p <= Len(s) /\ IsWordChar(s[p])

\* \b at position p: between s[p-1] and s[p]
WordBoundary(s, p) == WordAt(s, p - 1) # WordAt(s, p)

CharAt(s, p, c) == p >= 1 /\ p <= Len(s) /\ s[p] = c

\* \d{n} at p
DigitsAt(s, p, n) == p + n - 1 <= Len(s) /\ \A k \in p..(p + n - 1) : s[k] \in Digits

\* the position after the longest run of characters of C starting at p
RECURSIVE RunEnd(_, _, _)
RunEnd(s, p, C) ==
    IF p <= Len(s) /\ s[p] \in C THEN RunEnd(s, p + 1, C) ELSE p

SetMax(S) == CHOOSE x \in S : \A y \in S : y <= x
SetMin(S) == CHOOSE x \in S : \A y \in S : x <= y

-----------------------------------------------------------------------------
(* extract_contact_info: phone_pattern *)

\* The ways the optional parts of phone_pattern can be taken, in the order the
\* backtracking matcher tries them: every quantifier is greedy and the
\* parenthesised alternative of the area code comes first.
\*   cc:    digits of the country code (0: the country code group is skipped)
\*   ccsep: the separator after the country code is taken
\*   paren: the area code is \(\d{3}\)
\*   s1,s2: the separators after the area code and after the second group
PhoneConfigs ==
    [cc : 0..3, ccsep : BOOLEAN, paren : BOOLEAN, s1 : BOOLEAN, s2 : BOOLEAN]

B2N(b) == IF b THEN 0 ELSE 1

PhoneConfigRank(cfg) ==
    LET ccRank == IF cfg.cc = 0 THEN 6 ELSE 2 * (3 - cfg.cc) + B2N(cfg.ccsep)
    IN  8 * ccRank + 4 * B2N(cfg.paren) + 2 * B2N(cfg.s1) + B2N(cfg.s2)

\* the position after the match of the pattern body at p taken the way cfg
\* says, or 0 when it does not match that way (without the two \b)
PhoneBodyEnd(s, p, cfg) ==
    LET p1 == IF cfg.cc = 0 THEN p
              ELSE p + 1 + cfg.cc + (IF cfg.ccsep THEN 1 ELSE 0)
        ccOk == \/ cfg.cc = 0 /\ ~cfg.ccsep
                \/ /\ cfg.cc > 0
                   /\ CharAt(s, p, "+")
                   /\ DigitsAt(s, p + 1, cfg.cc)
                   /\ cfg.ccsep =>
                        (p + 1 + cfg.cc <= Len(s) /\ s[p + 1 + cfg.cc] \in PhoneSeparators)
        p2 == p1 + (IF cfg.paren THEN 5 ELSE 3)
        areaOk == IF cfg.paren
                  THEN CharAt(s, p1, "(") /\ DigitsAt(s, p1 + 1, 3) /\ CharAt(s, p1 + 4, ")")
                  ELSE DigitsAt(s, p1, 3)
        p3 == p2 + (IF cfg.s1 THEN 1 ELSE 0)
        s1Ok == cfg.s1 => (p2 <= Len(s) /\ s[p2] \in PhoneSeparators)
        p4 == p3 + 3
        p5 == p4 + (IF cfg.s2 THEN 1 ELSE 0)
        s2Ok == cfg.s2 => (p4 <= Len(s) /\ s[p4] \in PhoneSeparators)
        p6 == p5 + 4
    IN  IF /\ ccOk /\ areaOk /\ s1Ok /\ DigitsAt(s, p3, 3)
           /\ s2Ok /\ DigitsAt(s, p5, 4)
        THEN p6 ELSE 0

\* r'\b(?:\+\d{1,3}[-.\s]?)?(?:\(\d{3}\)|\d{3})[-.\s]?\d{3}[-.\s]?\d{4}\b'
\* matched at p: the position after the match, 0 when there is none
phone_pattern(s, p) ==
    LET ok == {cfg \in PhoneConfigs :
                  /\ PhoneBodyEnd(s, p, cfg) # 0
                  /\ WordBoundary(s, PhoneBodyEnd(s, p, cfg))}
        first == CHOOSE cfg \in ok :
                    \A other \in ok : PhoneConfigRank(cfg) <= PhoneConfigRank(other)
    IN  IF ~WordBoundary(s, p) \/ ok = {} THEN 0 ELSE PhoneBodyEnd(s, p, first)

-----------------------------------------------------------------------------
(* extract_contact_info: email_pattern *)

LocalChars == Letters \cup Digits \cup {".", "_", "%", "+", "-"}
DomainChars == Letters \cup Digits \cup {".", "-"}
\* [A-Z|a-z]: the bar is a member of the class
TldChars == Letters \cup {"|"}

\* r'\b[A-Za-z0-9._%+-]+@[A-Za-z0-9.-]+\.[A-Z|a-z]{2,}\b'
\* matched at p: the position after the match, 0 when there is none.
\* The local part is the whole run before the @; the domain is taken as long
\* as possible (the last dot that works), then the letters after it as long as
\* possible.
email_pattern(s, p) ==
    LET at == RunEnd(s, p, LocalChars)
        dEnd == RunEnd(s, at + 1, DomainChars)
        cands == {ke \in ((at + 2)..(dEnd - 1)) \X ((at + 5)..(Len(s) + 1)) :
                     /\ s[ke[1]] = "."
                     /\ ke[2] >= ke[1] + 3
                     /\ ke[2] <= RunEnd(s, ke[1] + 1, TldChars)
                     /\ WordBoundary(s, ke[2])}
        k == SetMax({ke[1] : ke \in cands})
        e == SetMax({ke[2] : ke \in {x \in cands : x[1] = k}})
    IN  IF ~WordBoundary(s, p) \/ at = p \/ ~CharAt(s, at, "@") \/ cands = {}
        THEN 0 ELSE e

PatternEnd(kind, s, p) ==
    IF kind = "phone" THEN phone_pattern(s, p) ELSE email_pattern(s, p)

\* re.findall(pattern, content): the non-overlapping matches, left to right
RECURSIVE re_findall(_, _, _)
re_findall(kind, s, pos) ==
    IF pos > Len(s) THEN <<>>
    ELSE LET e == PatternEnd(kind, s, pos)
         IN  IF e = 0 THEN re_findall(kind, s, pos + 1)
             ELSE <<SubSeq(s, pos, e - 1)>> \o re_findall(kind, s, e)

-----------------------------------------------------------------------------
(* list(set(matches)) *)

ToSet(seq) == {seq[k] : k \in 1..Len(seq)}

RemoveAt(seq, k) == SubSeq(seq, 1, k - 1) \o SubSeq(seq, k + 1, Len(seq))

\* the distinct entries of seq, each at its first place
RECURSIVE Distinct(_)
Distinct(seq) ==
    IF seq = <<>> THEN <<>>
    ELSE LET front == Distinct(SubSeq(seq, 1, Len(seq) - 1))
             last == seq[Len(seq)]
         IN  IF last \in ToSet(front) THEN front ELSE Append(front, last)

\* The iteration order of a set of str is fixed by the process's hash seed
\* and is otherwise arbitrary: the seed picks the permutation.
RECURSIVE HashOrder(_, _)
HashOrder(seq, seed) ==
    IF seq = <<>> THEN <<>>
    ELSE LET n == Len(seq)
             k == (seed % n) + 1
         IN  <<seq[k]>> \o HashOrder(RemoveAt(seq, k), seed \div n)

ListWithoutSet(matches, seed) == matches

list_set(matches, seed) == HashOrder(Distinct(matches), seed)

extract_contact_info(content, seed) ==
    [phones |-> list_set(re_findall("phone", content, 1), seed),
     emails |-> list_set(re_findall("email", content, 1), seed)]

-----------------------------------------------------------------------------
(* _create_empty_result, _parse_detailed_response *)

create_empty_result ==
    [primary_services |-> <<>>, secondary_services |-> <<>>,
     additional_services |-> <<>>, phones |-> <<>>, emails |-> <<>>]

\* service_sections: key -> section_header
ServiceKeys == <<"primary_services", "secondary_services", "additional_services">>

PrimaryHeader == <<"P", "r", "i", "m", "a", "r", "y", " ", "S", "e", "r", "v", "i", "c", "e", "s", ":">>
SecondaryHeader == <<"S", "e", "c", "o", "n", "d", "a", "r", "y", " ", "S", "e", "r", "v", "i", "c", "e", "s", ":">>
AdditionalHeader == <<"A", "d", "d", "i", "t", "i", "o", "n", "a", "l", " ", "S", "e", "r", "v", "i", "c", "e", "s", ":">>

section_header(key) ==
    CASE key = "primary_services" -> PrimaryHeader
      [] key = "secondary_services" -> SecondaryHeader
      [] key = "additional_services" -> AdditionalHeader

\* a literal of the pattern matched at p under re.IGNORECASE
LiteralAt(s, p, lit) ==
    /\ p >= 1
    /\ p + Len(lit) - 1 <= Len(s)
    /\ \A k \in 1..Len(lit) : Lower(s[p + k - 1]) = Lower(lit[k])

\* $ without re.MULTILINE: at the end, and before a newline that ends the text
DollarAt(s, q) == q = Len(s) + 1 \/ (q = Len(s) /\ s[q] = "\n")

\* (?=Primary Services:|Secondary Services:|Additional Services:|$) at q
OnlyEndLookahead(s, q) == DollarAt(s, q)

Lookahead(s, q) ==
    \/ LiteralAt(s, q, PrimaryHeader)
    \/ LiteralAt(s, q, SecondaryHeader)
    \/ LiteralAt(s, q, AdditionalHeader)
    \/ DollarAt(s, q)

\* (.*?) from position q under re.DOTALL: the lazy group ends at the first
\* position where the lookahead holds
RECURSIVE LazyEnd(_, _)
LazyEnd(s, q) == IF Lookahead(s, q) THEN q ELSE LazyEnd(s, q + 1)

\* re.search leaves out no earlier start: the first position where the header
\* matches (the rest of the pattern can always be matched), 0 when none
RECURSIVE SearchFrom(_, _, _)
SearchFrom(s, p, header) ==
    IF p + Len(header) - 1 > Len(s) THEN 0
    ELSE IF LiteralAt(s, p, header) THEN p
    ELSE SearchFrom(s, p + 1, header)

NoMatch == <<"None">>

\* section_match.group(1), or NoMatch when re.search returns None
section_match(header, response) ==
    LET p == SearchFrom(response, 1, header)
        from == p + Len(header)
    IN  IF p = 0 THEN NoMatch
        ELSE SubSeq(response, from, LazyEnd(response, from) - 1)

\* the characters of C dropped at the left end, as many as there are
RECURSIVE LStrip(_, _)
LStrip(s, C) == IF s # <<>> /\ s[1] \in C THEN LStrip(Tail(s), C) ELSE s

\* ... and at the right end
RECURSIVE RStrip(_, _)
RStrip(s, C) ==
    IF s # <<>> /\ s[Len(s)] \in C THEN RStrip(SubSeq(s, 1, Len(s) - 1), C) ELSE s

\* str.lstrip(chars) in the place of str.strip(chars)
strip_left_only(s, C) == LStrip(s, C)

\* str.strip() with C the whitespace, str.strip('[]') with C the two brackets
strip(s, C) == RStrip(LStrip(s, C), C)

\* str.replace('\n', ', ')
RECURSIVE replace_newlines(_)
replace_newlines(s) ==
    IF s = <<>> THEN <<>>
    ELSE (IF s[1] = "\n" THEN <<",", " ">> ELSE <<s[1]>>) \o replace_newlines(Tail(s))

Brackets == {"[", "]"}

\* .strip().strip('[]').replace('\n', ', ')
normalize(group) == replace_newlines(strip(strip(group, Whitespace), Brackets))

\* ', '.join(list)
RECURSIVE join(_)
join(list) ==
    IF list = <<>> THEN <<>>
    ELSE IF Len(list) = 1 THEN list[1]
    ELSE list[1] \o <<",", " ">> \o join(Tail(list))

parsed_field(key, response) ==
    LET m == section_match(section_header(key), response)
    IN  IF m = NoMatch THEN create_empty_result[key] ELSE normalize(m)

parse_detailed_response(response, original_content, seed) ==
    LET contact_info == extract_contact_info(original_content, seed)
    IN  [primary_services |-> parsed_field("primary_services", response),
         secondary_services |-> parsed_field("secondary_services", response),
         additional_services |-> parsed_field("additional_services", response),
         phones |-> join(contact_info.phones),
         emails |-> join(contact_info.emails)]

-----------------------------------------------------------------------------
(* analyze_content *)

NoReply == [status |-> "none", text |-> <<>>]
FailedReply == [status |-> "failed", text |-> <<>>]
OkReply(response) == [status |-> "ok", text |-> response]

\* the try branch: generate_content returned and response.text was read
analyze_content(content, response, seed) ==
    parse_detailed_response(response, content, seed)

\* the except branch, were it to fall through without a result: `analysis`
\* keeps what the row before left in it
analyze_content_except_stale == analysis

\* the except branch: a failure of generate_content or of response.text is
\* logged and the empty result returned
analyze_content_except == create_empty_result

-----------------------------------------------------------------------------
(* The spreadsheet *)

OriginalColumns ==
    {"Name", "Address", "Rating_text", "Opening_Time", "Phone_Number", "GMAP", "Website"}
AllColumns == OriginalColumns \cup {"All_Content"}

\* what pandas gives for a blank cell
NaN == <<"NaN">>

\* str(value)
py_str(value) == IF value = NaN THEN <<"n", "a", "n">> ELSE value

\* row.get(column, '')
row_get(row, column, cols) == IF column \in cols THEN row[column] ELSE <<>>

\* `if all_content:` without the strip
has_content_unstripped(all_content) == all_content # <<>>

\* all_content.strip() is truthy
has_content(all_content) == strip(all_content, Whitespace) # <<>>

all_content_of(row, cols) == py_str(row_get(row, "All_Content", cols))

\* the original columns taken from the wrong cell
processed_row_shifted(row, an, cols) ==
    [Name |-> row_get(row, "Name", cols),
     Address |-> row_get(row, "Address", cols),
     Rating_text |-> row_get(row, "Rating_text", cols),
     Opening_Time |-> row_get(row, "Opening_Time", cols),
     Phone_Number |-> row_get(row, "Phone_Number", cols),
     GMAP |-> row_get(row, "Website", cols),
     Website |-> row_get(row, "GMAP", cols),
     Primary_Services |-> an.primary_services,
     Secondary_Services |-> an.secondary_services,
     Additional_Services |-> an.additional_services,
     Extracted_Phones |-> an.phones,
     Extracted_Emails |-> an.emails]

processed_row(row, an, cols) ==
    [Name |-> row_get(row, "Name", cols),
     Address |-> row_get(row, "Address", cols),
     Rating_text |-> row_get(row, "Rating_text", cols),
     Opening_Time |-> row_get(row, "Opening_Time", cols),
     Phone_Number |-> row_get(row, "Phone_Number", cols),
     GMAP |-> row_get(row, "GMAP", cols),
     Website |-> row_get(row, "Website", cols),
     Primary_Services |-> an.primary_services,
     Secondary_Services |-> an.secondary_services,
     Additional_Services |-> an.additional_services,
     Extracted_Phones |-> an.phones,
     Extracted_Emails |-> an.emails]

-----------------------------------------------------------------------------
(* Inputs of the batch run *)

ScenarioContent ==
    <<"C", "a", "l", "l", " ", "u", "s", " ", "a", "t", " ", "5", "5", "5", "-", "1", "2", "3", "-", "4", "5", "6", "7", " ", "o", "r", " ", "e", "m", "a", "i", "l", " ", "i", "n", "f", "o", "@", "e", "x", "a", "m", "p", "l", "e", ".", "c", "o", "m", " ", "f", "o", "r", " ", "b", "r", "a", "k", "e", " ", "r", "e", "p", "a", "i", "r", ".">>

RowPool ==
    { [Name |-> <<"A">>, Address |-> <<"1", " ", "M", "a", "i", "n", " ", "S", "t">>, Rating_text |-> <<"4", ".", "5">>,
       Opening_Time |-> <<"9", "a", "m">>, Phone_Number |-> <<"5", "5", "5", "-", "0", "0", "0", "-", "1", "1", "1", "1">>,
       GMAP |-> <<"g", "/", "a">>, Website |-> <<"a", ".", "c", "o", "m">>,
       All_Content |-> ScenarioContent],
      [Name |-> <<"B">>, Address |-> <<"2", " ", "S", "i", "d", "e", " ", "S", "t">>, Rating_text |-> NaN,
       Opening_Time |-> <<"8", "a", "m">>, Phone_Number |-> NaN,
       GMAP |-> <<"g", "/", "b">>, Website |-> <<"b", ".", "c", "o", "m">>,
       All_Content |-> <<" ", "\n">>],
      [Name |-> <<"C">>, Address |-> NaN, Rating_text |-> <<"3", ".", "0">>,
       Opening_Time |-> NaN, Phone_Number |-> <<"5", "5", "5", "-", "0", "0", "0", "-", "3", "3", "3", "3">>,
       GMAP |-> <<"g", "/", "c">>, Website |-> NaN,
       All_Content |-> NaN] }

ColumnChoices == {AllColumns, AllColumns \ {"All_Content", "Website"}}

\* the response texts the model may return
ResponsePool ==
    { <<"P", "r", "i", "m", "a", "r", "y", " ", "S", "e", "r", "v", "i", "c", "e", "s", ":", " ", "[", "B", "r", "a", "k", "e", " ", "r", "e", "p", "a", "i", "r", "]", "\n", "S", "e", "c", "o", "n", "d", "a", "r", "y", " ", "S", "e", "r", "v", "i", "c", "e", "s", ":", " ", "[", "O", "i", "l", " ", "c", "h", "a", "n", "g", "e", "]", "\n", "A", "d", "d", "i", "t", "i", "o", "n", "a", "l", " ", "S", "e", "r", "v", "i", "c", "e", "s", ":", " ", "[", "T", "o", "w", "i", "n", "g", "]">>,
      <<"a", "d", "d", "i", "t", "i", "o", "n", "a", "l", " ", "s", "e", "r", "v", "i", "c", "e", "s", ":", " ", "T", "o", "w", "i", "n", "g", "\n", "P", "R", "I", "M", "A", "R", "Y", " ", "S", "E", "R", "V", "I", "C", "E", "S", ":", "\n", "B", "r", "a", "k", "e", " ", "r", "e", "p", "a", "i", "r", "\n", "T", "i", "r", "e", "s">> }

HashSeeds == 0..MaxSeed

\* the contents process_file can pass to analyze_content
ContentPool == {all_content_of(row, cols) : row \in RowPool, cols \in ColumnChoices}

\* analyze_content on the inputs of the batch run, computed once
AnalysisTable ==
    { <<c, r, s, analyze_content(c, r, s)>> :
          c \in ContentPool, r \in ResponsePool, s \in HashSeeds }

analyzed(content, response, seed) ==
    (CHOOSE t \in AnalysisTable :
        t[1] = content /\ t[2] = response /\ t[3] = seed)[4]

RowSeqs == UNION {[1..n -> RowPool] : n \in 0..MaxRows}

\* result_df in main before process_file has returned
NotReturned == [returned |-> FALSE, data |-> <<>>]

\* no value yet
NoResult == "None"

-----------------------------------------------------------------------------
(* main, __init__ and process_file *)

IdlePure == text = <<>> /\ nchunks = 0 /\ parsed = NoResult

Init ==
    /\ pc = "new"
    /\ env \in [api_key : BOOLEAN, readable : BOOLEAN]
    /\ hashseed \in HashSeeds
    /\ columns \in ColumnChoices
    /\ rows \in RowSeqs
    /\ idx = 0
    /\ rowState = [i \in 1..Len(rows) |-> "Unprocessed"]
    /\ calls = <<>>
    /\ outcome = [i \in 1..Len(rows) |-> NoReply]
    /\ analysis = create_empty_result
    /\ analyzed_data = <<>>
    /\ result_df = NotReturned
    /\ saved = FALSE
    /\ IdlePure

\* __init__ with GOOGLE_API_KEY set
Construct ==
    /\ pc = "new"
    /\ env.api_key
    /\ pc' = "constructed"
    /\ UNCHANGED <<hashseed, batchVars, text, nchunks, parsed>>

\* __init__ without it: ValueError, which main catches and prints
ConstructNoKey ==
    /\ pc = "new"
    /\ ~env.api_key
    /\ pc' = "config_error"
    /\ UNCHANGED <<hashseed, batchVars, text, nchunks, parsed>>

\* pd.read_excel raises, the handler logs and goes on without re-raising
ReadExcelFailsSwallowed ==
    /\ pc = "constructed"
    /\ ~env.readable
    /\ pc' = "loop"
    /\ UNCHANGED <<hashseed, batchVars, text, nchunks, parsed>>

\* pd.read_excel(input_file) returns the frame
ReadExcel ==
    /\ pc = "constructed"
    /\ env.readable
    /\ pc' = "loop"
    /\ UNCHANGED <<hashseed, batchVars, text, nchunks, parsed>>

\* pd.read_excel raises: process_file logs and re-raises, main catches and prints
ReadExcelFails ==
    /\ pc = "constructed"
    /\ ~env.readable
    /\ pc' = "read_error"
    /\ UNCHANGED <<hashseed, batchVars, text, nchunks, parsed>>

\* the loop takes up the next row, up to the call of generate_content
StartRow ==
    /\ pc = "loop"
    /\ idx < Len(rows)
    /\ idx' = idx + 1
    /\ IF has_content(all_content_of(rows[idx + 1], columns))
       THEN /\ pc' = "model"
            /\ calls' = Append(calls, idx + 1)
            /\ rowState' = [rowState EXCEPT ![idx + 1] = "ModelCalled"]
            /\ UNCHANGED analysis
       ELSE /\ pc' = "assemble"
            /\ analysis' = create_empty_result
            /\ rowState' = [rowState EXCEPT ![idx + 1] = "ContentEmpty"]
            /\ UNCHANGED calls
    /\ UNCHANGED <<env, hashseed, columns, rows, outcome, analyzed_data, result_df, saved,
                   text, nchunks, parsed>>

\* the except branch retries the call
ModelFailsRetry ==
    /\ pc = "model"
    /\ Len(calls) <= 2 * Len(rows)
    /\ calls' = Append(calls, idx)
    /\ UNCHANGED <<pc, env, hashseed, columns, rows, idx, rowState, outcome, analysis,
                   analyzed_data, result_df, saved, text, nchunks, parsed>>

\* generate_content returns and response.text is read
ModelReturns ==
    /\ pc = "model"
    /\ \E response \in ResponsePool :
          /\ outcome' = [outcome EXCEPT ![idx] = OkReply(response)]
          /\ analysis' = analyzed(all_content_of(rows[idx], columns), response, hashseed)
    /\ pc' = "assemble"
    /\ UNCHANGED <<env, hashseed, columns, rows, idx, rowState, calls, analyzed_data,
                   result_df, saved, text, nchunks, parsed>>

\* generate_content or response.text raises
ModelFails ==
    /\ pc = "model"
    /\ outcome' = [outcome EXCEPT ![idx] = FailedReply]
    /\ analysis' = analyze_content_except
    /\ pc' = "assemble"
    /\ UNCHANGED <<env, hashseed, columns, rows, idx, rowState, calls, analyzed_data,
                   result_df, saved, text, nchunks, parsed>>

\* analyzed_data.append(processed_row)
AssembleRow ==
    /\ pc = "assemble"
    /\ analyzed_data' = Append(analyzed_data, processed_row(rows[idx], analysis, columns))
    /\ rowState' = [rowState EXCEPT ![idx] = "Assembled"]
    /\ pc' = "loop"
    /\ UNCHANGED <<env, hashseed, columns, rows, idx, calls, outcome, analysis,
                   result_df, saved, text, nchunks, parsed>>

\* the loop is over: return pd.DataFrame(analyzed_data)
ReturnResult ==
    /\ pc = "loop"
    /\ idx = Len(rows)
    /\ result_df' = [returned |-> TRUE, data |-> analyzed_data]
    /\ pc' = "returned"
    /\ UNCHANGED <<env, hashseed, columns, rows, idx, rowState, calls, outcome, analysis,
                   analyzed_data, saved, text, nchunks, parsed>>

\* result_df.to_excel(output_file) writes the file
SaveResults ==
    /\ pc = "returned"
    /\ saved' = TRUE
    /\ pc' = "done"
    /\ UNCHANGED <<env, hashseed, columns, rows, idx, rowState, calls, outcome, analysis,
                   analyzed_data, result_df, text, nchunks, parsed>>

\* result_df.to_excel raises, main catches and prints
SaveResultsFails ==
    /\ pc = "returned"
    /\ pc' = "write_error"
    /\ UNCHANGED <<hashseed, batchVars, text, nchunks, parsed>>

Next ==
    \/ Construct
    \/ ConstructNoKey
    \/ ReadExcel
    \/ ReadExcelFails
    \/ StartRow
    \/ ModelReturns
    \/ ModelFails
    \/ AssembleRow
    \/ ReturnResult
    \/ SaveResults
    \/ SaveResultsFails

Spec == Init /\ [][Next]_vars

\* every call of the program returns or raises, and the interpreter goes on
FairSpec == Spec /\ WF_vars(Next)

-----------------------------------------------------------------------------
(* extract_contact_info applied to bounded texts *)

IdleBatch ==
    /\ env = [api_key |-> TRUE, readable |-> TRUE]
    /\ columns = AllColumns
    /\ rows = <<>>
    /\ idx = 0
    /\ rowState = <<>>
    /\ calls = <<>>
    /\ outcome = <<>>
    /\ analysis = create_empty_result
    /\ analyzed_data = <<>>
    /\ result_df = NotReturned
    /\ saved = FALSE

ContactChunks ==
    { <<"5", "5", "5", "-", "1", "2", "3", "-", "4", "5", "6", "7">>,
      <<"(", "5", "5", "5", ")", " ", "1", "2", "3", "-", "4", "5", "6", "7">>,
      <<"5", "5", "5", "9", "8", "7", "6", "5", "4", "3">>,
      <<"+", "1", " ">>,
      <<"i", "n", "f", "o", "@", "e", "x", "a", "m", "p", "l", "e", ".", "c", "o", "m">>,
      <<" ">>,
      <<"x">> }

InitContact ==
    /\ pc = "build"
    /\ hashseed \in HashSeeds
    /\ text = <<>>
    /\ nchunks = 0
    /\ parsed = NoResult
    /\ IdleBatch

AppendContactChunk ==
    /\ pc = "build"
    /\ nchunks < MaxContactChunks
    /\ \E chunk \in ContactChunks : text' = text \o chunk
    /\ nchunks' = nchunks + 1
    /\ UNCHANGED <<pc, hashseed, batchVars, parsed>>

ExtractContact ==
    /\ pc = "build"
    /\ parsed' = extract_contact_info(text, hashseed)
    /\ pc' = "extracted"
    /\ UNCHANGED <<hashseed, batchVars, text, nchunks>>

NextContact == AppendContactChunk \/ ExtractContact

SpecContact == InitContact /\ [][NextContact]_vars

-----------------------------------------------------------------------------
(* _parse_detailed_response applied to bounded response texts *)

ResponseChunks ==
    { <<"P", "r", "i", "m", "a", "r", "y", " ", "S", "e", "r", "v", "i", "c", "e", "s", ":">>,
      <<"S", "E", "C", "O", "N", "D", "A", "R", "Y", " ", "s", "e", "r", "v", "i", "c", "e", "s", ":">>,
      <<"a", "d", "d", "i", "t", "i", "o", "n", "a", "l", " ", "s", "e", "r", "v", "i", "c", "e", "s", ":">>,
      <<" ">>,
      <<"\n">>,
      <<"[">>,
      <<"]">>,
      <<"O", "i", "l", " ", "c", "h", "a", "n", "g", "e", ",", " ", "T", "i", "r", "e", " ", "r", "o", "t", "a", "t", "i", "o", "n">> }

InitParse ==
    /\ pc = "build"
    /\ hashseed = 0
    /\ text = <<>>
    /\ nchunks = 0
    /\ parsed = NoResult
    /\ IdleBatch

AppendResponseChunk ==
    /\ pc = "build"
    /\ nchunks < MaxResponseChunks
    /\ \E chunk \in ResponseChunks : text' = text \o chunk
    /\ nchunks' = nchunks + 1
    /\ UNCHANGED <<pc, hashseed, batchVars, parsed>>

ParseResponse ==
    /\ pc = "build"
    /\ parsed' = parse_detailed_response(text, <<>>, hashseed)
    /\ pc' = "parsed"
    /\ UNCHANGED <<hashseed, batchVars, text, nchunks>>

NextParse == AppendResponseChunk \/ ParseResponse

SpecParse == InitParse /\ [][NextParse]_vars

-----------------------------------------------------------------------------
(* Claims about the batch run (Spec, FairSpec) *)

Assembled == 1..Len(analyzed_data)

ServicesEmpty(out) ==
    /\ out.Primary_Services = <<>>
    /\ out.Secondary_Services = <<>>
    /\ out.Additional_Services = <<>>

\* the content is empty once coerced to str and trimmed of whitespace
Blank(i) ==
    LET c == all_content_of(rows[i], columns)
    IN  \A k \in 1..Len(c) : c[k] \in Whitespace

\* C1: a row with non-empty content whose model call (or the parsing of the
\* response) fails has its three service fields empty, and Extracted_Phones
\* and Extracted_Emails hold the comma-joined contacts extracted from the
\* row's raw All_Content.
C1_FailedRowKeepsContacts ==
    \A i \in Assembled :
        outcome[i].status = "failed" =>
            LET contact == extract_contact_info(all_content_of(rows[i], columns), hashseed)
            IN  /\ ServicesEmpty(analyzed_data[i])
                /\ analyzed_data[i].Extracted_Phones = join(contact.phones)
                /\ analyzed_data[i].Extracted_Emails = join(contact.emails)

\* C2: a run that reads the file returns exactly one output row per input
\* row, in input order, with the seven original columns copied from that
\* input row ('' for a column the file does not have), whatever the model
\* calls did.
C2_OneOutputRowPerInputRow ==
    /\ Len(analyzed_data) <= idx
    /\ \A i \in Assembled : \A c \in OriginalColumns :
          analyzed_data[i][c] = (IF c \in columns THEN rows[i][c] ELSE <<>>)
    /\ result_df.returned =>
          /\ Len(result_df.data) = Len(rows)
          /\ result_df.data = analyzed_data

C2_Witness ==
    /\ result_df.returned
    /\ Len(result_df.data) = 3
    /\ columns = AllColumns
    /\ rows[1] # rows[2]
    /\ outcome[1].status = "failed"
    /\ outcome[3].status = "ok"

C4_EmptyContentSkipsModel ==
    /\ \A k \in 1..Len(calls) : ~Blank(calls[k])
    /\ \A i \in Assembled :
          Blank(i) =>
              /\ ServicesEmpty(analyzed_data[i])
              /\ analyzed_data[i].Extracted_Phones = <<>>
              /\ analyzed_data[i].Extracted_Emails = <<>>

C4_Witness ==
    \E i, j \in Assembled :
        /\ Blank(i)
        /\ "All_Content" \in columns
        /\ rows[i].All_Content # <<>>
        /\ outcome[j].status = "ok"

\* C9: when the input file cannot be read, process_file raises to its
\* caller: no model call is made, nothing is returned and nothing is written;
\* without the credential the constructor raises before any row is taken up.
C9_FatalErrors ==
    /\ ~env.readable =>
          /\ pc \in {"new", "constructed", "config_error", "read_error"}
          /\ idx = 0 /\ calls = <<>> /\ analyzed_data = <<>>
          /\ ~result_df.returned /\ ~saved
    /\ ~env.api_key =>
          /\ pc \in {"new", "config_error"}
          /\ idx = 0 /\ calls = <<>> /\ analyzed_data = <<>>
          /\ ~result_df.returned /\ ~saved

C9_Witness ==
    /\ pc = "read_error"
    /\ Len(rows) >= 2
    /\ ~Blank(1)

RowTransitions ==
    { <<"Unprocessed", "ContentEmpty">>, <<"Unprocessed", "ModelCalled">>,
      <<"ContentEmpty", "Assembled">>, <<"ModelCalled", "Assembled">> }

RowStep ==
    \A i \in 1..Len(rows) :
        rowState'[i] # rowState[i] =>
            /\ <<rowState[i], rowState'[i]>> \in RowTransitions
            /\ \A j \in 1..(i - 1) : rowState[j] = "Assembled"
            /\ \A j \in (1..Len(rows)) \ {i} : rowState'[j] = rowState[j]
            /\ \A j \in (i + 1)..Len(rows) : rowState[j] = "Unprocessed"

CallsInOrder ==
    /\ \A k \in 1..(Len(calls) - 1) : calls[k] < calls[k + 1]
    /\ \A k \in 1..Len(calls) : rowState[calls[k]] \in {"ModelCalled", "Assembled"}
    /\ \A i \in 1..Len(rows) : rowState[i] = "ModelCalled" => i \in ToSet(calls)

AllAssembled == \A i \in 1..Len(rows) : rowState[i] = "Assembled"

\* C10: every row goes Unprocessed -> (ContentEmpty | ModelCalled) ->
\* Assembled, one row at a time and in input order; the model is called at
\* most once per row, in row order; and once the file is read the run ends
\* with every row Assembled, provided every call returns or raises.
C10_RowLifecycle ==
    /\ [][RowStep]_vars
    /\ []CallsInOrder
    /\ (pc = "loop") ~> (result_df.returned /\ AllAssembled)

C10_Witness ==
    /\ result_df.returned
    /\ AllAssembled
    /\ Len(rows) = 3
    /\ outcome[1].status = "failed"
    /\ Blank(2)
    /\ outcome[3].status = "ok"

-----------------------------------------------------------------------------
(* Claims about _parse_detailed_response (SpecParse) *)

MarkerAt(s, q) ==
    \/ LiteralAt(s, q, PrimaryHeader)
    \/ LiteralAt(s, q, SecondaryHeader)
    \/ LiteralAt(s, q, AdditionalHeader)

Occurrences(s, header) == {p \in 1..Len(s) : LiteralAt(s, p, header)}

\* the text between the end of the first occurrence of the key's marker and
\* the start of the next occurrence of any marker (or the end of the text)
SectionBody(key, s) ==
    LET header == section_header(key)
        from == SetMin(Occurrences(s, header)) + Len(header)
        nexts == {q \in from..Len(s) : MarkerAt(s, q)}
        to == IF nexts = {} THEN Len(s) + 1 ELSE SetMin(nexts)
    IN  SubSeq(s, from, to - 1)

Keys == ToSet(ServiceKeys)

\* C5: each field is the normalized text between the end of its marker's
\* first occurrence (case-insensitive) and the start of the next occurrence
\* of any of the three markers, or the end of the text; it holds no marker;
\* and it is empty when its marker does not occur, in whatever order the
\* markers stand.
C5_FieldIsMarkerDelimited ==
    pc = "parsed" =>
        \A key \in Keys :
            /\ parsed[key] =
                  (IF Occurrences(text, section_header(key)) = {} THEN <<>>
                   ELSE normalize(SectionBody(key, text)))
            /\ \A q \in 1..Len(parsed[key]) : ~MarkerAt(parsed[key], q)

C5_Witness ==
    /\ pc = "parsed"
    /\ Occurrences(text, SecondaryHeader) = {}
    /\ Occurrences(text, AdditionalHeader) # {}
    /\ Occurrences(text, PrimaryHeader) # {}
    /\ SetMin(Occurrences(text, AdditionalHeader)) < SetMin(Occurrences(text, PrimaryHeader))
    /\ parsed.primary_services # <<>>
    /\ parsed.additional_services # <<>>
    /\ parsed.secondary_services = <<>>

\* s without the characters of C that stand before its first and after its
\* last character outside C
Trimmed(s, C) ==
    LET keep == {k \in 1..Len(s) : s[k] \notin C}
    IN  IF keep = {} THEN <<>> ELSE SubSeq(s, SetMin(keep), SetMax(keep))

\* s without one leading [ and one trailing ]
OneBracketPairRemoved(s) ==
    LET a == IF s # <<>> /\ s[1] = "[" THEN Tail(s) ELSE s
    IN  IF a # <<>> /\ a[Len(a)] = "]" THEN SubSeq(a, 1, Len(a) - 1) ELSE a

Matched == {key \in Keys : Occurrences(text, section_header(key)) # {}}

\* C6 as stated: the section text is trimmed of whitespace, then at most one
\* leading [ and at most one trailing ] are removed, then every newline
\* becomes ', '.
C6_SingleBracketPair ==
    pc = "parsed" =>
        \A key \in Matched :
            parsed[key] =
                replace_newlines(
                    OneBracketPairRemoved(Trimmed(SectionBody(key, text), Whitespace)))

\* C6 as amended: the section text is trimmed of whitespace, then every [ and
\* ] standing before its first or after its last other character is removed
\* (whole runs of either bracket at either end), then every newline that is
\* left becomes ', '.
C6_EdgeBracketsRemoved ==
    pc = "parsed" =>
        \A key \in Matched :
            LET core == Trimmed(Trimmed(SectionBody(key, text), Whitespace), Brackets)
            IN  /\ parsed[key] = replace_newlines(core)
                /\ \A k \in 1..Len(parsed[key]) : parsed[key][k] # "\n"

C6_Witness ==
    /\ pc = "parsed"
    /\ \E key \in Matched :
          LET t == Trimmed(SectionBody(key, text), Whitespace)
          IN  /\ Len(t) >= 3
              /\ t[Len(t)] = "]" /\ t[Len(t) - 1] = "]"
              /\ parsed[key] # <<>>
              /\ parsed[key] # OneBracketPairRemoved(t)

-----------------------------------------------------------------------------
(* Claims about extract_contact_info (SpecContact) *)

\* text[p..e-1] has the specified shape of a phone number
PhoneShape(s, p, e) == \E cfg \in PhoneConfigs : e # 0 /\ PhoneBodyEnd(s, p, cfg) = e

\* ... and stands in the text: at its start or after whitespace, up to its
\* end or to whitespace
StandsAt(s, p, e) ==
    /\ PhoneShape(s, p, e)
    /\ p = 1 \/ s[p - 1] \in Whitespace
    /\ e = Len(s) + 1 \/ s[e] \in Whitespace

\* C7: every phone number of the specified shape standing in the text is
\* returned in phones, with its parentheses and its country code.
C7_SpecifiedShapesReturned ==
    pc = "extracted" =>
        \A p \in 1..Len(text) : \A e \in (p + 1)..(Len(text) + 1) :
            (StandsAt(text, p, e) /\ ~\E q \in 1..(p - 1) : StandsAt(text, q, e))
                => SubSeq(text, p, e - 1) \in ToSet(parsed.phones)

NoDuplicates(seq) ==
    \A i, j \in 1..Len(seq) : i # j => seq[i] # seq[j]

\* C8: phones and emails hold no duplicates and hold exactly the distinct
\* strings matched in the text; both are empty for the empty text.
C8_DistinctMatches ==
    pc = "extracted" =>
        /\ NoDuplicates(parsed.phones)
        /\ NoDuplicates(parsed.emails)
        /\ ToSet(parsed.phones) = ToSet(re_findall("phone", text, 1))
        /\ ToSet(parsed.emails) = ToSet(re_findall("email", text, 1))
        /\ text = <<>> => (parsed.phones = <<>> /\ parsed.emails = <<>>)

C8_Witness ==
    /\ pc = "extracted"
    /\ Len(re_findall("phone", text, 1)) > Len(parsed.phones)
    /\ parsed.phones # <<>>

=============================================================================
